---- MODULE Spec2Model ----
(***************************************************************************)
(* A model of emdat_streamlit_app.py: one Streamlit script run ("render    *)
(* pass") loads the collection into a table, the sidebar picks one of      *)
(* three sections and the section's renderers run in order on that table.  *)
(* A table cell is NaN (a key the document lacks), a number or a string.   *)
(***************************************************************************)
EXTENDS Integers, Sequences, FiniteSets, TLC

VARIABLES collection, df, status, tab, todo, calls, out, frame

vars == <<collection, df, status, tab, todo, calls, out, frame>>

(***************************************************************************)
(* Bounds of the explored inputs.                                          *)
(***************************************************************************)
\* longest collection drawn from DocPool
MaxDocs == 3
\* most distinct disaster types in a collection of the many-types family
MaxTypes == 12
\* most documents that repeat a type in the many-types family
MaxExtra == 2

(***************************************************************************)
(* Cells, strings and columns.                                             *)
(***************************************************************************)
NaN == [k |-> "nan"]
None == [k |-> "none"]
Num(n) == [k |-> "num", n |-> n]
Str(s) == [k |-> "str", s |-> s]

DISASTER_TYPE == "disaster_info.disaster_type"
START_YEAR == "timeline.start_year"
COUNTRY == "location_info.country"
ISO == "location_info.iso"
TOTAL_DEATHS == "impact_info.total_deaths"
TOTAL_DAMAGE == "financial_info.total_damage_usd_adjusted"

\* The characters of the string literals the inputs are drawn from.
Chars(s) ==
  CASE s = "" -> <<>>
    [] s = " " -> << " " >>
    [] s = "3" -> << "3" >>
    [] s = "6" -> << "6" >>
    [] s = "7" -> << "7" >>
    [] s = "-2" -> << "-", "2" >>
    [] s = "n/a" -> << "n", "/", "a" >>
    [] s = "2000" -> << "2", "0", "0", "0" >>
    [] s = "2001" -> << "2", "0", "0", "1" >>
    [] s = "20x1" -> << "2", "0", "x", "1" >>
    [] s = "Japan" -> << "J", "a", "p", "a", "n" >>
    [] s = "Peru" -> << "P", "e", "r", "u" >>
    [] s = "JPN" -> << "J", "P", "N" >>
    [] s = "PER" -> << "P", "E", "R" >>
    [] s = "nan" -> << "n", "a", "n" >>
    [] s = "Drought" -> << "D", "r", "o", "u", "g", "h", "t" >>
    [] s = "Earthquake" -> << "E", "a", "r", "t", "h", "q", "u", "a", "k", "e" >>
    [] s = "Epidemic" -> << "E", "p", "i", "d", "e", "m", "i", "c" >>
    [] s = "Fire" -> << "F", "i", "r", "e" >>
    [] s = "Flood" -> << "F", "l", "o", "o", "d" >>
    [] s = "Fog" -> << "F", "o", "g" >>
    [] s = "Glacial" -> << "G", "l", "a", "c", "i", "a", "l" >>
    [] s = "Impact" -> << "I", "m", "p", "a", "c", "t" >>
    [] s = "Landslide" -> << "L", "a", "n", "d", "s", "l", "i", "d", "e" >>
    [] s = "Others" -> << "O", "t", "h", "e", "r", "s" >>
    [] s = "Storm" -> << "S", "t", "o", "r", "m" >>
    [] s = "Tsunami" -> << "T", "s", "u", "n", "a", "m", "i" >>
    [] s = "Volcano" -> << "V", "o", "l", "c", "a", "n", "o" >>
    [] s = "Wildfire" -> << "W", "i", "l", "d", "f", "i", "r", "e" >>
    [] s = "Zud" -> << "Z", "u", "d" >>

\* Characters in code-point order (Python compares strings by code point).
Alphabet ==
  << " ", "-", "/", "0", "1", "2", "3", "4", "5", "6", "7", "8", "9",
     "A", "B", "C", "D", "E", "F", "G", "H", "I", "J", "K", "L", "M",
     "N", "O", "P", "Q", "R", "S", "T", "U", "V", "W", "X", "Y", "Z",
     "a", "b", "c", "d", "e", "f", "g", "h", "i", "j", "k", "l", "m",
     "n", "o", "p", "q", "r", "s", "t", "u", "v", "w", "x", "y", "z" >>

CodePoint(c) == CHOOSE i \in 1..Len(Alphabet) : Alphabet[i] = c

RECURSIVE CharsLess(_, _)
CharsLess(a, b) ==
  IF b = <<>> THEN FALSE
  ELSE IF a = <<>> THEN TRUE
  ELSE IF Head(a) = Head(b) THEN CharsLess(Tail(a), Tail(b))
  ELSE CodePoint(Head(a)) < CodePoint(Head(b))

\* Python's < on two str values.
StrLess(a, b) == CharsLess(Chars(a), Chars(b))

Whitespace == {" "}

RECURSIVE LStrip(_)
LStrip(cs) ==
  IF cs # <<>> /\ Head(cs) \in Whitespace THEN LStrip(Tail(cs)) ELSE cs

RECURSIVE RStrip(_)
RStrip(cs) ==
  IF cs # <<>> /\ cs[Len(cs)] \in Whitespace
  THEN RStrip(SubSeq(cs, 1, Len(cs) - 1)) ELSE cs

\* str.strip() on the characters of a string.
Strip(cs) == RStrip(LStrip(cs))

Digits == {"0", "1", "2", "3", "4", "5", "6", "7", "8", "9"}

DigitVal(c) == CodePoint(c) - CodePoint("0")

RECURSIVE ParseDigits(_, _)
ParseDigits(cs, acc) ==
  IF cs = <<>> THEN acc
  ELSE ParseDigits(Tail(cs), 10 * acc + DigitVal(Head(cs)))

AllDigits(cs) == cs # <<>> /\ \A i \in 1..Len(cs) : cs[i] \in Digits

\* pd.to_numeric(..., errors="coerce") on one cell: a number stays, a string
\* that is an optionally signed run of digits is parsed, anything else is NaN.
ToNumeric(cell) ==
  IF cell.k = "num" THEN cell
  ELSE IF cell.k = "str"
  THEN LET cs == Chars(cell.s)
       IN IF AllDigits(cs) THEN Num(ParseDigits(cs, 0))
          ELSE IF cs # <<>> /\ Head(cs) = "-" /\ AllDigits(Tail(cs))
          THEN Num(0 - ParseDigits(Tail(cs), 0))
          ELSE NaN
  ELSE NaN

\* astype(str) on one cell.
AsStr(cell) ==
  IF cell.k = "str" THEN cell
  ELSE IF cell.k = "num" THEN Str(ToString(cell.n))
  ELSE Str("nan")

IsNA(cell) == cell.k \in {"nan", "none"}

\* Elementwise == of a column against a selected scalar: NaN and None equal
\* nothing.
EqCell(cell, sel) == ~IsNA(cell) /\ ~IsNA(sel) /\ cell = sel

\* Elementwise >= and <= of an int column against a selected scalar (a
\* comparison against None is False everywhere).
GeCell(cell, sel) == cell.k = "num" /\ sel.k = "num" /\ cell.n >= sel.n

LeCell(cell, sel) == cell.k = "num" /\ sel.k = "num" /\ cell.n <= sel.n

(***************************************************************************)
(* Sequences.                                                              *)
(***************************************************************************)
Min(a, b) == IF a <= b THEN a ELSE b

Range(s) == {s[i] : i \in 1..Len(s)}

RECURSIVE InsertByKey(_, _)
InsertByKey(s, x) ==
  IF s = <<>> THEN <<x>>
  ELSE IF x.key < Head(s).key THEN <<x>> \o s
  ELSE <<Head(s)>> \o InsertByKey(Tail(s), x)

\* A stable ascending sort of records on their integer field key: equal keys
\* keep their order.
RECURSIVE SortByKey(_)
SortByKey(s) ==
  IF s = <<>> THEN <<>>
  ELSE InsertByKey(SortByKey(SubSeq(s, 1, Len(s) - 1)), s[Len(s)])

\* The position of string a among the strings S in Python's order.
StrRank(a, S) == Cardinality({b \in S : StrLess(b, a)})

RECURSIVE SumSeq(_)
SumSeq(s) == IF s = <<>> THEN 0 ELSE Head(s) + SumSeq(Tail(s))

\* s[:n]
SliceTo(s, n) == SubSeq(s, 1, Min(n, Len(s)))

\* SliceFrom starting one entry late.
SliceFromNext(s, n) == SubSeq(s, n + 2, Len(s))

\* s[n:], s.iloc[n:]
SliceFrom(s, n) == SubSeq(s, n + 1, Len(s))

\* The distinct elements of s in order of first appearance.
RECURSIVE UniqueSeq(_)
UniqueSeq(s) ==
  IF s = <<>> THEN <<>>
  ELSE LET u == UniqueSeq(SubSeq(s, 1, Len(s) - 1))
       IN IF s[Len(s)] \in Range(u) THEN u ELSE Append(u, s[Len(s)])

(***************************************************************************)
(* The table: its columns and its rows, each row with its index label.     *)
(***************************************************************************)
HasRows(d) == d.rows # <<>>

\* df[c] as a sequence of [idx, val].
Column(d, c) ==
  [i \in 1..Len(d.rows) |-> [idx |-> d.rows[i].idx, val |-> d.rows[i].v[c]]]

\* df[c] = pd.to_numeric(df[c], errors="coerce"), in place.
ToNumericColumn(d, c) ==
  [d EXCEPT !.rows =
     [i \in 1..Len(d.rows) |-> [d.rows[i] EXCEPT !.v[c] = ToNumeric(@)]]]

\* df[c] = df[c].astype(str), in place.
AsStrColumn(d, c) ==
  [d EXCEPT !.rows =
     [i \in 1..Len(d.rows) |-> [d.rows[i] EXCEPT !.v[c] = AsStr(@)]]]

\* df.dropna(subset=cols): how="any" drops a row with a missing value in any
\* of cols, how="all" a row whose values in cols are all missing.
DropNA(d, cols, how) ==
  LET Keep(r) ==
        IF how = "any" THEN \A c \in cols : ~IsNA(r.v[c])
        ELSE \E c \in cols : ~IsNA(r.v[c])
  IN [d EXCEPT !.rows = SelectSeq(d.rows, Keep)]

\* df.sort_values(c) on a numeric column without missing values.
SortValues(d, c) ==
  LET keyed == [i \in 1..Len(d.rows) |->
                  [key |-> d.rows[i].v[c].n, row |-> d.rows[i]]]
      s == SortByKey(keyed)
  IN [d EXCEPT !.rows = [i \in 1..Len(s) |-> s[i].row]]

\* The index labels of the rows, in order.
Index(d) == [i \in 1..Len(d.rows) |-> d.rows[i].idx]

\* df[c].unique() as a set: every missing value is the one NaN.
Unique(d, c) == {d.rows[i].v[c] : i \in 1..Len(d.rows)}

\* df[c].dropna().unique() as a set.
UniqueNotNA(d, c) == {x \in Unique(d, c) : ~IsNA(x)}

\* sorted(values) raises TypeError when it has to compare a str with the
\* float NaN.
SortedRaises(S) == NaN \in S /\ \E x \in S : x.k = "str"

\* st.selectbox(label, options): None when there is no option, else any one.
SelectBox(S) == IF S = {} THEN {None} ELSE S

\* Series.value_counts(): the non-missing values with their counts, largest
\* count first, equal counts in order of first appearance.
ValueCounts(d, c) ==
  LET col == Column(d, c)
      present == SelectSeq(col, LAMBDA e : ~IsNA(e.val))
      vals == UniqueSeq([i \in 1..Len(present) |-> present[i].val])
      Count(x) == Cardinality({i \in 1..Len(present) : present[i].val = x})
      keyed == [i \in 1..Len(vals) |->
                  [key |-> 0 - Count(vals[i]), label |-> vals[i],
                   size |-> Count(vals[i])]]
      s == SortByKey(keyed)
  IN [i \in 1..Len(s) |-> [label |-> s[i].label, size |-> s[i].size]]

\* Series.nlargest(n), keep="first": the n largest sizes, largest first, the
\* earlier entry winning a tie.
NLargest(s, n) ==
  LET keyed == [i \in 1..Len(s) |->
                  [key |-> 0 - s[i].size, label |-> s[i].label,
                   size |-> s[i].size]]
      o == SortByKey(keyed)
  IN SliceTo([i \in 1..Len(o) |-> [label |-> o[i].label, size |-> o[i].size]], n)

Labels(s) == [i \in 1..Len(s) |-> s[i].label]

Sizes(s) == [i \in 1..Len(s) |-> s[i].size]

\* GroupBySize counting each group once, as nunique() of the key would.
GroupBySizeUnique(d, c) ==
  LET vals == UniqueSeq([i \in 1..Len(d.rows) |-> d.rows[i].v[c]])
      present == SelectSeq(vals, LAMBDA x : ~IsNA(x))
      s == SortByKey([i \in 1..Len(present) |->
                        [key |-> present[i].n, val |-> present[i]]])
  IN [i \in 1..Len(s) |-> [val |-> s[i].val, count |-> 1]]

\* df.groupby(c).size(): one entry per non-missing value of the numeric
\* column c, ascending, with the number of its rows.
GroupBySize(d, c) ==
  LET vals == UniqueSeq(
                [i \in 1..Len(d.rows) |-> d.rows[i].v[c]])
      present == SelectSeq(vals, LAMBDA x : ~IsNA(x))
      keyed == [i \in 1..Len(present) |->
                  [key |-> present[i].n, val |-> present[i]]]
      s == SortByKey(keyed)
  IN [i \in 1..Len(s) |->
        [val |-> s[i].val,
         count |-> Cardinality({j \in 1..Len(d.rows) : d.rows[j].v[c] = s[i].val})]]

(***************************************************************************)
(* The collection and load_data.                                           *)
(***************************************************************************)
Metrics ==
  << "impact_info.total_deaths",
     "financial_info.reconstruction_cost_usd_adjusted",
     "financial_info.insured_damage_usd_adjusted",
     "financial_info.total_damage_usd_adjusted",
     "impact_info.injured_number",
     "impact_info.affected_number",
     "impact_info.homeless_number",
     "impact_info.total_affected" >>

Absent == [k |-> "absent"]

\* A document with the given leaves; a leaf given as Absent is a key the
\* document does not have.
DocOf(f) == [c \in {c \in DOMAIN f : f[c] # Absent} |-> f[c]]

MkDoc(type, year, country, iso, deaths, damage, rest) ==
  DocOf((DISASTER_TYPE :> type) @@ (START_YEAR :> year) @@ (COUNTRY :> country)
        @@ (ISO :> iso) @@ (TOTAL_DEATHS :> deaths) @@ (TOTAL_DAMAGE :> damage)
        @@ [m \in Range(Metrics) \ {TOTAL_DEATHS, TOTAL_DAMAGE} |-> rest])

DocPool ==
  { MkDoc(Str("Flood"), Num(2000), Str("Japan"), Str("JPN"),
          Num(10), Num(4), Num(1)),
    MkDoc(Str("Flood"), Num(2001), Str("Peru"), Str("PER"),
          Str("n/a"), Str("6"), Str("7")),
    MkDoc(Str("Storm"), Str("2001"), Str("Japan"), Str("JPN"),
          Str("3"), Absent, Absent),
    MkDoc(Str("Storm"), Str("20x1"), Str(" "), Absent,
          Num(5), Str("-2"), Str("n/a")),
    MkDoc(Absent, Num(2000), Absent, Str("PER"),
          Num(1), Num(1), Num(3)),
    MkDoc(Str(""), Absent, Str("Peru"), Str("PER"),
          Absent, Num(2), Num(2)) }

PoolCollections == UNION {[1..n -> DocPool] : n \in 0..MaxDocs}

\* pie charts keep the ten most frequent types
TopN == 10

TypePool ==
  << "Drought", "Earthquake", "Epidemic", "Fire", "Flood", "Fog", "Glacial",
     "Impact", "Landslide", "Others", "Storm", "Tsunami", "Volcano",
     "Wildfire" >>

\* Collections with many disaster types: one document for each of the first
\* k types of TypePool, then up to MaxExtra documents that repeat the first,
\* the tenth or the last of them or have no type.
TypeDoc(t, country) ==
  DocOf((DISASTER_TYPE :> t) @@ (COUNTRY :> country))

ExtraChoices(k) == {0} \cup (IF k > 0 THEN {1, Min(TopN, k), k} ELSE {})

ManyTypes(k, extra) ==
  [i \in 1..k |-> TypeDoc(Str(TypePool[i]), Str("Japan")) ]
  \o [j \in 1..Len(extra) |->
        TypeDoc(IF extra[j] = 0 THEN Absent ELSE Str(TypePool[extra[j]]),
                IF j % 2 = 1 THEN Str("Japan") ELSE Str("Peru"))]

ManyTypesCollections ==
  UNION { { ManyTypes(k, extra) :
              extra \in UNION {[1..n -> ExtraChoices(k)] : n \in 0..MaxExtra} } :
          k \in 0..Min(MaxTypes, Len(TypePool)) }

Collections == PoolCollections \cup ManyTypesCollections

\* pd.json_normalize(docs): one row per document, one column per key that
\* some document has, NaN where a document lacks the key; no document, no
\* column.
json_normalize(docs) ==
  LET cols == UNION {DOMAIN docs[i] : i \in 1..Len(docs)}
  IN [columns |-> cols,
      rows |-> [i \in 1..Len(docs) |->
                  [idx |-> i - 1,
                   v |-> [c \in cols |->
                            IF c \in DOMAIN docs[i] THEN docs[i][c] ELSE NaN]]]]

load_data(coll) == json_normalize(coll)

EmptyFrame == [fn |-> "none"]

EmptyTable == [columns |-> {}, rows |-> <<>>]

(***************************************************************************)
(* What a renderer leaves behind: the table as it left it, the elements it *)
(* put on the page, its local variables, and whether it raised.            *)
(***************************************************************************)
El(by, kind) == [by |-> by, kind |-> kind]

Returned(d, els, locals) ==
  [df |-> d, out |-> els, frame |-> locals, raised |-> FALSE]

\* An uncaught exception: Streamlit shows it and the script run ends.
Raised(d, els, fn, error) ==
  [df |-> d, out |-> Append(els, El(fn, "exception")),
   frame |-> [fn |-> fn, error |-> error], raised |-> TRUE]

show_df_table_outcomes(d) ==
  {Returned(d, <<El("show_df_table", "dataframe")>>, [fn |-> "show_df_table"])}

pie_chart_disaster_type_outcomes(d) ==
  LET fn == "pie_chart_disaster_type"
      header == <<El(fn, "header")>>
  IN IF DISASTER_TYPE \notin d.columns
     THEN {Raised(d, header, fn, "KeyError")}
     ELSE
       LET disaster_counts == ValueCounts(d, DISASTER_TYPE)
           top_10 == NLargest(disaster_counts, TopN)
           others_count == SumSeq(Sizes(SliceFrom(disaster_counts, TopN)))
           disaster_labels ==
             Labels(top_10)
             \o (IF others_count > 0 THEN <<Str("Others")>> ELSE <<>>)
           disaster_sizes ==
             Sizes(top_10) \o (IF others_count > 0 THEN <<others_count>> ELSE <<>>)
       IN {Returned(d, Append(header, El(fn, "pyplot")),
                    [fn |-> fn, disaster_labels |-> disaster_labels,
                     disaster_sizes |-> disaster_sizes])}

\* TrendMask with the end year left out of the range.
TrendMaskOpenEnd(r, start_year, end_year, disaster_type) ==
  /\ GeCell(r.v[START_YEAR], start_year)
  /\ LeCell(r.v[START_YEAR], end_year)
  /\ r.v[START_YEAR] # end_year
  /\ EqCell(r.v[DISASTER_TYPE], disaster_type)

\* The mask of line_graph_disaster_trend on one row.
TrendMask(r, start_year, end_year, disaster_type) ==
  /\ GeCell(r.v[START_YEAR], start_year)
  /\ LeCell(r.v[START_YEAR], end_year)
  /\ EqCell(r.v[DISASTER_TYPE], disaster_type)

line_graph_disaster_trend_outcomes(d) ==
  LET fn == "line_graph_disaster_trend"
      header == <<El(fn, "header")>>
  IN IF START_YEAR \notin d.columns
     THEN {Raised(d, header, fn, "KeyError")}
     ELSE
       LET \* the caller's table gets the coerced column
           d1 == ToNumericColumn(d, START_YEAR)
           \* from here on df is a local table
           local == SortValues(DropNA(d1, {START_YEAR}, "any"), START_YEAR)
           unique_years == Unique(local, START_YEAR)
           year_boxes ==
             <<El(fn, "selectbox")>>
             \o (IF unique_years # {} THEN <<El(fn, "selectbox")>> ELSE <<>>)
       IN IF DISASTER_TYPE \notin d.columns
          THEN {Raised(d1, header \o year_boxes, fn, "KeyError")}
          ELSE IF SortedRaises(Unique(local, DISASTER_TYPE))
          THEN {Raised(d1, header \o year_boxes, fn, "TypeError")}
          ELSE
            { LET df_filtered ==
                    SelectSeq(local.rows,
                              LAMBDA r : TrendMask(r, start_year, end_year,
                                                   disaster_type))
                  df_trend ==
                    GroupBySize([local EXCEPT !.rows = df_filtered], START_YEAR)
              IN Returned(d1,
                   header \o year_boxes
                   \o <<El(fn, "selectbox"),
                        IF df_trend = <<>> THEN El(fn, "write_warning")
                        ELSE El(fn, "pyplot")>>,
                   [fn |-> fn, start_year |-> start_year, end_year |-> end_year,
                    disaster_type |-> disaster_type,
                    df_filtered |-> [i \in 1..Len(df_filtered) |-> df_filtered[i].idx],
                    df_trend |-> df_trend])
              : start_year \in SelectBox(unique_years),
                end_year \in (IF unique_years # {} THEN unique_years ELSE {None}),
                disaster_type \in SelectBox(Unique(local, DISASTER_TYPE)) }

\* The labels of the metric selectbox and the column behind each.
ImpactMetrics ==
  << [label |-> "Total Deaths", column |-> "impact_info.total_deaths"],
     [label |-> "Injured Number", column |-> "impact_info.injured_number"],
     [label |-> "Affected Number", column |-> "impact_info.affected_number"],
     [label |-> "Homeless Number", column |-> "impact_info.homeless_number"],
     [label |-> "Total Affected", column |-> "impact_info.total_affected"],
     [label |-> "Reconstruction Cost (USD)",
      column |-> "financial_info.reconstruction_cost_usd_adjusted"],
     [label |-> "Insured Damage (USD)",
      column |-> "financial_info.insured_damage_usd_adjusted"],
     [label |-> "Total Damage (USD)",
      column |-> "financial_info.total_damage_usd_adjusted"] >>

\* NumbersOf with a missing value counted as 0, as fillna(0) would.
NumbersOrZeroOf(rows, t, c) ==
  LET mine == SelectSeq(rows, LAMBDA r : EqCell(r.v[DISASTER_TYPE], t))
  IN [i \in 1..Len(mine) |-> IF mine[i].v[c].k = "num" THEN mine[i].v[c].n ELSE 0]

\* The numbers of column c in the rows whose disaster type is t.
NumbersOf(rows, t, c) ==
  LET mine == SelectSeq(rows, LAMBDA r : EqCell(r.v[DISASTER_TYPE], t)
                                         /\ r.v[c].k = "num")
  IN [i \in 1..Len(mine) |-> mine[i].v[c].n]

\* df.groupby("disaster_info.disaster_type")[c].sum() and then
\* sort_values(by=c): one entry per non-missing type, the types in string
\* order, then ascending by sum.
GroupBySum(d, c) ==
  LET types == UniqueNotNA(d, DISASTER_TYPE)
      names == {x.s : x \in types}
      byName == SortByKey(
                  [i \in 1..Len(d.rows) |->
                     [key |-> IF IsNA(d.rows[i].v[DISASTER_TYPE]) THEN 0
                              ELSE StrRank(d.rows[i].v[DISASTER_TYPE].s, names),
                      type |-> d.rows[i].v[DISASTER_TYPE]]])
      groups == SelectSeq(UniqueSeq([i \in 1..Len(byName) |-> byName[i].type]),
                          LAMBDA x : ~IsNA(x))
      summed == [i \in 1..Len(groups) |->
                   [key |-> SumSeq(NumbersOf(d.rows, groups[i], c)),
                    type |-> groups[i]]]
      s == SortByKey(summed)
  IN [i \in 1..Len(s) |-> [type |-> s[i].type, sum |-> s[i].key]]

bar_chart_disaster_vs_impact_outcomes(d) ==
  LET fn == "bar_chart_disaster_vs_impact"
      shown == <<El(fn, "header"), El(fn, "selectbox")>>
  IN { LET selected_metric == ImpactMetrics[m].column
       IN IF selected_metric \notin d.columns
          THEN Raised(d, shown, fn, "KeyError")
          ELSE
            LET \* the caller's table gets the coerced column
                d1 == ToNumericColumn(d, selected_metric)
                df_filtered == DropNA(d1, {selected_metric}, "any")
            IN IF DISASTER_TYPE \notin d.columns
               THEN Raised(d1, shown, fn, "KeyError")
               ELSE Returned(d1, Append(shown, El(fn, "pyplot")),
                      [fn |-> fn, selected_metric |-> selected_metric,
                       df_filtered |-> Index(df_filtered),
                       df_grouped |-> GroupBySum(df_filtered, selected_metric)])
       : m \in 1..Len(ImpactMetrics) }

RECURSIVE GCD(_, _)
GCD(a, b) == IF b = 0 THEN a ELSE GCD(b, a % b)

Abs(n) == IF n < 0 THEN 0 - n ELSE n

\* The exact quotient a / b, b > 0, in lowest terms.
Frac(a, b) ==
  LET g == GCD(Abs(a), b)
  IN [k |-> "frac", num |-> a \div g, den |-> b \div g]

\* Series.mean() skips missing values; the mean of no value is NaN.
Mean(ns) == IF ns = <<>> THEN NaN ELSE Frac(SumSeq(ns), Len(ns))

\* .fillna("nan")
FillNaN(x) == IF IsNA(x) THEN Str("nan") ELSE x

\* df[df[type] == t][metrics].mean().reindex(metrics).fillna("nan")
Averages(d, t) ==
  [m \in Range(Metrics) |-> FillNaN(Mean(NumbersOf(d.rows, t, m)))]

\* NotEnoughTypes letting a single type through.
NoTypeAtAll(types) == Cardinality(types) < 1

\* fewer disaster types than a comparison needs
NotEnoughTypes(types) == Cardinality(types) < 2

\* BOptions without the filter.
BOptionsAll(types, disaster_a) == types

\* [d for d in disaster_types if d != disaster_a]
BOptions(types, disaster_a) == {x \in types : x # disaster_a}

\* Python's "not x" on a selected value: None and the empty string are false.
Falsy(x) == x = None \/ x = Str("")

RECURSIVE ToNumericColumns(_, _)
\* df[cols] = df[cols].apply(pd.to_numeric, errors="coerce"), in place.
ToNumericColumns(d, cols) ==
  IF cols = <<>> THEN d
  ELSE ToNumericColumns(ToNumericColumn(d, Head(cols)), Tail(cols))

disaster_impact_comparison_table_outcomes(d) ==
  LET fn == "disaster_impact_comparison_table"
      header == <<El(fn, "header")>>
  IN IF DISASTER_TYPE \notin d.columns
     THEN {Raised(d, header, fn, "KeyError")}
     ELSE
       LET disaster_types == UniqueNotNA(d, DISASTER_TYPE)
       IN IF NotEnoughTypes(disaster_types)
          THEN {Returned(d, Append(header, El(fn, "warning")),
                         [fn |-> fn, disaster_types |-> disaster_types,
                          rendered |-> FALSE])}
          ELSE IF ~(Range(Metrics) \subseteq d.columns)
          THEN {Raised(d, header, fn, "KeyError")}
          ELSE
            LET \* the caller's table gets the coerced columns
                d1 == ToNumericColumns(d, Metrics)
                local == DropNA(d1, Range(Metrics), "all")
            IN UNION { LET disaster_b_options == BOptions(disaster_types, disaster_a)
                 IN { IF Falsy(disaster_b)
                      THEN Returned(d1,
                             header
                             \o <<El(fn, "selectbox")>>
                             \o (IF disaster_b_options # {}
                                 THEN <<El(fn, "selectbox")>> ELSE <<>>)
                             \o <<El(fn, "warning")>>,
                             [fn |-> fn, disaster_types |-> disaster_types,
                              rendered |-> FALSE, disaster_a |-> disaster_a,
                              disaster_b_options |-> disaster_b_options,
                              disaster_b |-> disaster_b])
                      ELSE Returned(d1,
                             header
                             \o <<El(fn, "selectbox"), El(fn, "selectbox"),
                                  El(fn, "table")>>,
                             [fn |-> fn, disaster_types |-> disaster_types,
                              rendered |-> TRUE, disaster_a |-> disaster_a,
                              disaster_b_options |-> disaster_b_options,
                              disaster_b |-> disaster_b,
                              avg_a |-> Averages(local, disaster_a),
                              avg_b |-> Averages(local, disaster_b)])
                      : disaster_b \in SelectBox(disaster_b_options) }
                 : disaster_a \in SelectBox(disaster_types) }

\* [c for c in country_list if c.strip()]: the countries that are not blank.
NotBlank(countries) == {c \in countries : Strip(Chars(c.s)) # <<>>}

country_wise_data_page_outcomes(d) ==
  LET fn == "country_wise_data_page"
  IN IF COUNTRY \notin d.columns
     THEN {Raised(d, <<>>, fn, "KeyError")}
     ELSE
       LET country_list ==
             NotBlank(UniqueNotNA(d, COUNTRY)) \cup {Str("All Countries")}
       IN { LET df_filtered ==
                  IF selected_country # Str("All Countries")
                  THEN SelectSeq(d.rows,
                                 LAMBDA r : EqCell(r.v[COUNTRY], selected_country))
                  ELSE d.rows
            IN Returned(d, <<El(fn, "selectbox"), El(fn, "dataframe")>>,
                 [fn |-> fn, selected_country |-> selected_country,
                  df_filtered |-> [i \in 1..Len(df_filtered) |-> df_filtered[i].idx]])
            : selected_country \in SelectBox(country_list) }

pie_chart_disaster_type_by_country_outcomes(d) ==
  LET fn == "pie_chart_disaster_type_by_country"
      header == <<El(fn, "header")>>
  IN IF COUNTRY \notin d.columns
     THEN {Raised(d, header, fn, "KeyError")}
     ELSE
       LET country_list == NotBlank(UniqueNotNA(d, COUNTRY))
           shown == Append(header, El(fn, "selectbox"))
       IN { LET df_filtered ==
                  [d EXCEPT !.rows =
                     SelectSeq(d.rows,
                               LAMBDA r : EqCell(r.v[COUNTRY], selected_country))]
            IN IF ~HasRows(df_filtered)
               THEN Returned(d, Append(shown, El(fn, "warning")),
                      [fn |-> fn, selected_country |-> selected_country,
                       df_filtered |-> <<>>, rendered |-> FALSE])
               ELSE IF DISASTER_TYPE \notin d.columns
               THEN Raised(d, shown, fn, "KeyError")
               ELSE
                 LET disaster_counts == ValueCounts(df_filtered, DISASTER_TYPE)
                     others_sum == SumSeq(Sizes(SliceFrom(disaster_counts, TopN)))
                     top_disasters ==
                       SliceTo(disaster_counts, TopN)
                       \o (IF others_sum > 0
                           THEN <<[label |-> Str("Others"), size |-> others_sum]>>
                           ELSE <<>>)
                 IN Returned(d, Append(shown, El(fn, "pyplot")),
                      [fn |-> fn, selected_country |-> selected_country,
                       df_filtered |-> Index(df_filtered), rendered |-> TRUE,
                       top_disasters |-> top_disasters])
            : selected_country \in SelectBox(country_list) }

\* df_filtered.groupby("location_info.iso").size(): one entry per ISO string,
\* in string order, with the number of its rows.
GroupByIsoSize(rows) ==
  LET isos == {rows[i].v[ISO].s : i \in 1..Len(rows)}
      keyed == SortByKey(
                 [i \in 1..Len(rows) |->
                    [key |-> StrRank(rows[i].v[ISO].s, isos), iso |-> rows[i].v[ISO]]])
      groups == UniqueSeq([i \in 1..Len(keyed) |-> keyed[i].iso])
  IN [i \in 1..Len(groups) |->
        [iso |-> groups[i],
         count |-> Cardinality({j \in 1..Len(rows) : rows[j].v[ISO] = groups[i]})]]

world_map_of_disasters_outcomes(d) ==
  LET fn == "world_map_of_disasters"
      header == <<El(fn, "header")>>
  IN IF ISO \notin d.columns
     THEN {Raised(d, header, fn, "KeyError")}
     ELSE
       LET \* the caller's table gets the converted columns
           d1 == AsStrColumn(d, ISO)
       IN IF DISASTER_TYPE \notin d.columns
          THEN {Raised(d1, header, fn, "KeyError")}
          ELSE
            LET d2 == AsStrColumn(d1, DISASTER_TYPE)
            IN { LET df_filtered ==
                       SelectSeq(d2.rows,
                                 LAMBDA r : EqCell(r.v[DISASTER_TYPE], disaster_type))
                 IN Returned(d2,
                      header \o <<El(fn, "selectbox"), El(fn, "plotly_chart")>>,
                      [fn |-> fn, disaster_type |-> disaster_type,
                       df_filtered |-> [i \in 1..Len(df_filtered) |-> df_filtered[i].idx],
                       df_map |-> GroupByIsoSize(df_filtered)])
                 : disaster_type \in SelectBox(Unique(d2, DISASTER_TYPE)) }

(***************************************************************************)
(* The script run.                                                         *)
(***************************************************************************)
Tabs == {"Disaster Data", "Disaster Impact", "Country-Wise Disaster Info"}

\* SectionRenderers with the two renderers of the impact section swapped.
SectionRenderersSwapped(t) ==
  CASE t = "Disaster Data" ->
         <<"show_df_table", "pie_chart_disaster_type", "line_graph_disaster_trend">>
    [] t = "Disaster Impact" ->
         <<"disaster_impact_comparison_table", "bar_chart_disaster_vs_impact">>
    [] t = "Country-Wise Disaster Info" ->
         <<"country_wise_data_page", "pie_chart_disaster_type_by_country",
           "world_map_of_disasters">>

\* The calls sidebar makes for each value of the radio button, in order.
SectionRenderers(t) ==
  CASE t = "Disaster Data" ->
         <<"show_df_table", "pie_chart_disaster_type", "line_graph_disaster_trend">>
    [] t = "Disaster Impact" ->
         <<"bar_chart_disaster_vs_impact", "disaster_impact_comparison_table">>
    [] t = "Country-Wise Disaster Info" ->
         <<"country_wise_data_page", "pie_chart_disaster_type_by_country",
           "world_map_of_disasters">>

\* The first two sections put a paragraph under their title.
SectionIntro(t) ==
  <<El("sidebar", "title")>>
  \o (IF t = "Country-Wise Disaster Info" THEN <<>> ELSE <<El("sidebar", "write")>>)

Init ==
  /\ collection \in Collections
  /\ df = EmptyTable
  /\ status = "idle"
  /\ tab = "none"
  /\ todo = <<>>
  /\ calls = <<>>
  /\ out = <<>>
  /\ frame = EmptyFrame

\* main() up to the call of sidebar: every interaction runs the script again
\* from the top, which loads the collection afresh.
main ==
  /\ status \in {"idle", "done", "crashed"}
  /\ df' = load_data(collection)
  /\ status' = "loaded"
  /\ tab' = "none"
  /\ todo' = <<>>
  /\ calls' = <<>>
  /\ out' = <<>>
  /\ frame' = EmptyFrame
  /\ UNCHANGED collection

\* sidebar(df) up to its first call of a renderer.
sidebar ==
  /\ status = "loaded"
  /\ \E t \in Tabs :
       /\ tab' = t
       /\ todo' = SectionRenderers(t)
       /\ out' = <<El("sidebar", "sidebar.title"), El("sidebar", "sidebar.radio")>>
                 \o SectionIntro(t)
  /\ status' = "running"
  /\ UNCHANGED <<collection, df, calls, frame>>

\* sidebar calls renderer fn, which ends as r; an exception ends the run.
Call(fn, r) ==
  /\ status = "running"
  /\ todo # <<>>
  /\ Head(todo) = fn
  /\ calls' = Append(calls, fn)
  /\ todo' = Tail(todo)
  /\ df' = r.df
  /\ out' = out \o r.out
  /\ frame' = r.frame
  /\ status' = IF r.raised THEN "crashed"
               ELSE IF Tail(todo) = <<>> THEN "done" ELSE "running"
  /\ UNCHANGED <<collection, tab>>

show_df_table ==
  \E r \in show_df_table_outcomes(df) : Call("show_df_table", r)

pie_chart_disaster_type ==
  \E r \in pie_chart_disaster_type_outcomes(df) : Call("pie_chart_disaster_type", r)

line_graph_disaster_trend ==
  \E r \in line_graph_disaster_trend_outcomes(df) :
    Call("line_graph_disaster_trend", r)

bar_chart_disaster_vs_impact ==
  \E r \in bar_chart_disaster_vs_impact_outcomes(df) :
    Call("bar_chart_disaster_vs_impact", r)

disaster_impact_comparison_table ==
  \E r \in disaster_impact_comparison_table_outcomes(df) :
    Call("disaster_impact_comparison_table", r)

country_wise_data_page ==
  \E r \in country_wise_data_page_outcomes(df) :
    Call("country_wise_data_page", r)

pie_chart_disaster_type_by_country ==
  \E r \in pie_chart_disaster_type_by_country_outcomes(df) :
    Call("pie_chart_disaster_type_by_country", r)

world_map_of_disasters ==
  \E r \in world_map_of_disasters_outcomes(df) :
    Call("world_map_of_disasters", r)

Next ==
  \/ main
  \/ sidebar
  \/ show_df_table
  \/ pie_chart_disaster_type
  \/ line_graph_disaster_trend
  \/ bar_chart_disaster_vs_impact
  \/ disaster_impact_comparison_table
  \/ country_wise_data_page
  \/ pie_chart_disaster_type_by_country
  \/ world_map_of_disasters

Spec == Init /\ [][Next]_vars

(***************************************************************************)
(* Properties.  They are stated over Loaded, the table as load_data        *)
(* returned it, and over the locals and the page a renderer left behind.   *)
(***************************************************************************)
Loaded == load_data(collection)

LoadedRows == {i \in 1..Len(Loaded.rows) : TRUE}

LoadedCell(i, c) == IF c \in Loaded.columns THEN Loaded.rows[i].v[c] ELSE NaN

LoadedIdx(I) == {Loaded.rows[i].idx : i \in I}

\* A value that is a number or a string spelling an integer.
IsNumeric(cell) ==
  \/ cell.k = "num"
  \/ /\ cell.k = "str"
     /\ LET cs == Chars(cell.s)
            ds == IF cs # <<>> /\ Head(cs) = "-" THEN Tail(cs) ELSE cs
        IN ds # <<>> /\ Range(ds) \subseteq Digits

NumericValue(cell) == ToNumeric(cell).n

RECURSIVE SumOver(_, _)
\* The sum of the numeric values of column c over the loaded rows I.
SumOver(I, c) ==
  IF I = {} THEN 0
  ELSE LET i == CHOOSE j \in I : TRUE
       IN NumericValue(LoadedCell(i, c)) + SumOver(I \ {i}, c)

Finished(fn) == frame.fn = fn /\ "error" \notin DOMAIN frame

\* The elements renderer fn put on the page.
Shown(fn) == SelectSeq(out, LAMBDA e : e.by = fn)

Warned(fn) ==
  \E i \in 1..Len(out) :
    out[i].by = fn /\ out[i].kind \in {"warning", "write_warning"}

\* The loaded rows a pie chart is about: all of them, or those of a country.
TypedRows(I) == {i \in I : ~IsNA(LoadedCell(i, DISASTER_TYPE))}

CountryRows(country) == {i \in LoadedRows : EqCell(LoadedCell(i, COUNTRY), country)}

\* C1, stated of a bucket list: at most 11 buckets, of which at most 10 are
\* named types and at most one is the "Others" bucket, and the sizes add up to
\* the number of rows considered whose disaster type is not missing.
BucketsOk(labels, sizes, I) ==
  /\ Len(labels) = Len(sizes)
  /\ Len(labels) <= TopN + 1
  /\ Len(labels) = TopN + 1 => labels[TopN + 1] = Str("Others")
  /\ SumSeq(sizes) = Cardinality(TypedRows(I))

\* C1: both pie-chart renderers produce at most 11 buckets (at most 10 named
\* disaster types plus at most one "Others" bucket) whose sizes sum to the
\* number of rows considered that have a non-missing disaster type.
C1_PieBuckets ==
  /\ Finished("pie_chart_disaster_type") =>
       BucketsOk(frame.disaster_labels, frame.disaster_sizes, LoadedRows)
  /\ (Finished("pie_chart_disaster_type_by_country") /\ frame.rendered) =>
       BucketsOk(Labels(frame.top_disasters), Sizes(frame.top_disasters),
                 CountryRows(frame.selected_country))

\* A whole-table pie chart with ten named buckets and an "Others" bucket that
\* folds more than one record.
C1_Witness ==
  /\ Finished("pie_chart_disaster_type")
  /\ Len(frame.disaster_labels) = TopN + 1
  /\ frame.disaster_sizes[TopN + 1] >= 2
  /\ \E i \in LoadedRows : IsNA(LoadedCell(i, DISASTER_TYPE))

\* The loaded rows the trend filter has to keep.
TrendRows(start_year, end_year, disaster_type) ==
  {i \in LoadedRows :
     /\ IsNumeric(LoadedCell(i, START_YEAR))
     /\ start_year.k = "num" /\ end_year.k = "num"
     /\ start_year.n <= NumericValue(LoadedCell(i, START_YEAR))
     /\ NumericValue(LoadedCell(i, START_YEAR)) <= end_year.n
     /\ EqCell(LoadedCell(i, DISASTER_TYPE), disaster_type)}

\* C2: for every selected start year, end year and disaster type (start
\* greater than end included) the filtered rows of line_graph_disaster_trend
\* are exactly the rows with a numeric start_year within [start, end], both
\* bounds inclusive, and the selected disaster type.
C2_YearRangeFilter ==
  Finished("line_graph_disaster_trend") =>
    /\ Range(frame.df_filtered)
         = LoadedIdx(TrendRows(frame.start_year, frame.end_year,
                               frame.disaster_type))
    /\ Cardinality(Range(frame.df_filtered)) = Len(frame.df_filtered)

\* A one-year range that keeps a row on both of its bounds while a row of the
\* same type in another year and a row with an unreadable year are left out.
C2_Witness ==
  /\ Finished("line_graph_disaster_trend")
  /\ frame.start_year = frame.end_year
  /\ frame.df_filtered # <<>>
  /\ \E i \in LoadedRows :
       /\ EqCell(LoadedCell(i, DISASTER_TYPE), frame.disaster_type)
       /\ IsNumeric(LoadedCell(i, START_YEAR))
       /\ Loaded.rows[i].idx \notin Range(frame.df_filtered)
  /\ \E i \in LoadedRows : ~IsNumeric(LoadedCell(i, START_YEAR))

\* The loaded rows of one year among those the trend filter has to keep.
TrendRowsOf(y) ==
  {i \in TrendRows(frame.start_year, frame.end_year, frame.disaster_type) :
     NumericValue(LoadedCell(i, START_YEAR)) = y}

\* C3: the yearly trend maps each year of [start, end] that has a record of
\* the selected type to the number of such records, holds no other year and
\* holds no year twice.
C3_YearlyTrend ==
  Finished("line_graph_disaster_trend") =>
    /\ \A j \in 1..Len(frame.df_trend) :
         /\ frame.df_trend[j].count = Cardinality(TrendRowsOf(frame.df_trend[j].val.n))
         /\ frame.df_trend[j].count > 0
         /\ \A k \in 1..Len(frame.df_trend) :
              frame.df_trend[k].val = frame.df_trend[j].val => k = j
    /\ \A i \in TrendRows(frame.start_year, frame.end_year, frame.disaster_type) :
         \E j \in 1..Len(frame.df_trend) :
           frame.df_trend[j].val.n = NumericValue(LoadedCell(i, START_YEAR))

\* The example of the specification: three "Flood" records in the years 2000,
\* 2000 and 2001 over [2000, 2001] give {2000: 2, 2001: 1}.
C3_Witness ==
  /\ Finished("line_graph_disaster_trend")
  /\ Len(Loaded.rows) = 3
  /\ \A i \in LoadedRows : LoadedCell(i, DISASTER_TYPE) = Str("Flood")
  /\ frame.disaster_type = Str("Flood")
  /\ frame.start_year = Num(2000)
  /\ frame.end_year = Num(2001)
  /\ frame.df_trend = << [val |-> Num(2000), count |-> 2],
                         [val |-> Num(2001), count |-> 1] >>

\* C4: the options offered for "Disaster B" never contain the value chosen
\* as "Disaster A", so a rendered comparison compares two distinct types.
C4_DistinctPair ==
  (Finished("disaster_impact_comparison_table")
   /\ "disaster_a" \in DOMAIN frame) =>
    /\ frame.disaster_a \notin frame.disaster_b_options
    /\ frame.rendered => frame.disaster_a # frame.disaster_b

\* A rendered comparison table in a table with more than two types to choose
\* from.
C4_Witness ==
  /\ Finished("disaster_impact_comparison_table")
  /\ frame.rendered
  /\ Cardinality(frame.disaster_types) >= 3

\* C5: records are immutable once loaded: at every point of a render pass
\* the table holds the values load_data returned.
C5_RecordsImmutable == status # "idle" => df = Loaded

\* The renderers that filter the table.
FilteringRenderers ==
  {"line_graph_disaster_trend", "bar_chart_disaster_vs_impact",
   "pie_chart_disaster_type_by_country", "world_map_of_disasters",
   "country_wise_data_page"}

\* The filter of the last renderer kept no row.
NoRowsLeft == "df_filtered" \in DOMAIN frame /\ frame.df_filtered = <<>>

\* C6: whenever the filtering of a view renderer leaves no rows, the renderer
\* shows a warning and returns: it raises no exception and renders no empty
\* chart or table.
C6_EmptyFilterWarns ==
  (frame.fn \in FilteringRenderers /\ NoRowsLeft) =>
    /\ "error" \notin DOMAIN frame
    /\ Warned(frame.fn)
    /\ \A i \in 1..Len(out) :
         out[i].by = frame.fn =>
           out[i].kind \notin {"pyplot", "plotly_chart", "dataframe"}

\* The types of the loaded table that are not missing.
LoadedTypes == {LoadedCell(i, DISASTER_TYPE) : i \in TypedRows(LoadedRows)}

\* The loaded rows of type t whose value of metric m is numeric.
NumericRows(t, m) ==
  {i \in LoadedRows : /\ EqCell(LoadedCell(i, DISASTER_TYPE), t)
                      /\ IsNumeric(LoadedCell(i, m))}

\* avg is the mean of metric m over the loaded rows of type t whose value is
\* numeric, "nan" when there is none.
IsMeanOf(avg, t, m) ==
  IF NumericRows(t, m) = {} THEN avg = Str("nan")
  ELSE /\ avg.k = "frac"
       /\ avg.den > 0
       /\ avg.num * Cardinality(NumericRows(t, m)) = SumOver(NumericRows(t, m), m) * avg.den

AllColumnsLoaded == (Range(Metrics) \cup {DISASTER_TYPE}) \subseteq Loaded.columns

\* C7: non-numeric values in the impact columns raise nothing and add
\* nothing: the bar chart's sum per disaster type is the sum over the records
\* of that type whose value of the selected metric is numeric, and each mean
\* of the comparison table is the mean over the records of that type whose
\* value of that metric is numeric.
C7_NonNumericExcluded ==
  /\ (frame.fn \in {"bar_chart_disaster_vs_impact",
                    "disaster_impact_comparison_table"}
      /\ AllColumnsLoaded) => "error" \notin DOMAIN frame
  /\ Finished("bar_chart_disaster_vs_impact") =>
       /\ \A j \in 1..Len(frame.df_grouped) :
            /\ frame.df_grouped[j].sum
                 = SumOver(NumericRows(frame.df_grouped[j].type, frame.selected_metric),
                           frame.selected_metric)
            /\ NumericRows(frame.df_grouped[j].type, frame.selected_metric) # {}
       /\ \A t \in LoadedTypes :
            NumericRows(t, frame.selected_metric) # {} =>
              \E j \in 1..Len(frame.df_grouped) : frame.df_grouped[j].type = t
  /\ (Finished("disaster_impact_comparison_table") /\ frame.rendered) =>
       \A m \in Range(Metrics) :
         /\ IsMeanOf(frame.avg_a[m], frame.disaster_a, m)
         /\ IsMeanOf(frame.avg_b[m], frame.disaster_b, m)

\* A rendered comparison whose Disaster A has a record with a non-numeric
\* value for a metric and a mean for that metric all the same.
C7_Witness ==
  /\ Finished("disaster_impact_comparison_table")
  /\ frame.rendered
  /\ \E m \in Range(Metrics) :
       /\ frame.avg_a[m].k = "frac"
       /\ \E i \in LoadedRows :
            /\ EqCell(LoadedCell(i, DISASTER_TYPE), frame.disaster_a)
            /\ LoadedCell(i, m).k = "str"
            /\ ~IsNumeric(LoadedCell(i, m))

\* The renderers of each section, in the order of the calls in sidebar.
ExpectedCalls(t) ==
  IF t = "Disaster Data"
  THEN <<"show_df_table", "pie_chart_disaster_type", "line_graph_disaster_trend">>
  ELSE IF t = "Disaster Impact"
  THEN <<"bar_chart_disaster_vs_impact", "disaster_impact_comparison_table">>
  ELSE <<"country_wise_data_page", "pie_chart_disaster_type_by_country",
         "world_map_of_disasters">>

\* C8 as stated: in every render pass exactly one section is active and
\* sidebar invokes exactly that section's renderers in their fixed order.
C8_EveryPassRunsItsSection ==
  status \in {"done", "crashed"} => tab \in Tabs /\ calls = ExpectedCalls(tab)

\* C8, amended: exactly one section is active; sidebar invokes that section's
\* renderers in their fixed order and no other, each after the one before it
\* returned; a renderer that raises ends the pass, a pass that completes has
\* invoked exactly the section's renderers; the dispatch itself leaves the
\* table as loaded.
C8_SectionDispatch ==
  status \in {"running", "done", "crashed"} =>
    /\ tab \in Tabs
    /\ calls \o todo = ExpectedCalls(tab)
    /\ status = "done" => todo = <<>> /\ "error" \notin DOMAIN frame
    /\ status = "running" => todo # <<>> /\ "error" \notin DOMAIN frame
    /\ status = "crashed" =>
         calls # <<>> /\ "error" \in DOMAIN frame /\ frame.fn = calls[Len(calls)]
    /\ calls = <<>> => df = Loaded /\ frame = EmptyFrame

\* A completed pass of the section with three renderers.
C8_Witness ==
  /\ status = "done"
  /\ tab = "Country-Wise Disaster Info"
  /\ Len(calls) = 3
  /\ frame.fn = "world_map_of_disasters"

\* C9: with fewer than two distinct non-missing disaster types the comparison
\* renderer shows a warning and returns, offers no selection and renders no
\* table; it renders a table only for two selected types that both occur in
\* the table.
C9_TwoTypesGuard ==
  frame.fn = "disaster_impact_comparison_table" =>
    /\ Cardinality(LoadedTypes) < 2 =>
         /\ "error" \notin DOMAIN frame
         /\ Shown(frame.fn) = <<El(frame.fn, "header"), El(frame.fn, "warning")>>
         /\ ~frame.rendered
         /\ "disaster_a" \notin DOMAIN frame
    /\ \A i \in 1..Len(out) :
         (out[i].by = frame.fn /\ out[i].kind = "table") =>
           /\ Finished(frame.fn)
           /\ frame.rendered
           /\ {frame.disaster_a, frame.disaster_b} \subseteq LoadedTypes
           /\ Cardinality({frame.disaster_a, frame.disaster_b}) = 2

\* The comparison renderer turning down a table with a single disaster type.
C9_Witness ==
  /\ Finished("disaster_impact_comparison_table")
  /\ Cardinality(LoadedTypes) = 1
  /\ Warned("disaster_impact_comparison_table")

\* The number of rows of I with disaster type x.
CountOf(x, I) ==
  Cardinality({i \in TypedRows(I) : LoadedCell(i, DISASTER_TYPE) = x})

RECURSIVE SumCounts(_, _)
SumCounts(X, I) ==
  IF X = {} THEN 0
  ELSE LET x == CHOOSE y \in X : TRUE
       IN CountOf(x, I) + SumCounts(X \ {x}, I)

\* "Top-10 plus Others" of a bucket list over the rows I, but for the labels
\* being distinct.
TopTenPlusOthers(labels, sizes, I) ==
  LET types == {LoadedCell(i, DISASTER_TYPE) : i \in TypedRows(I)}
      n == Min(TopN, Cardinality(types))
      named == {labels[j] : j \in 1..n}
  IN /\ Len(sizes) = Len(labels)
     /\ Len(labels) = n + (IF Cardinality(types) > TopN THEN 1 ELSE 0)
     /\ named \subseteq types
     /\ Cardinality(named) = n
     /\ \A j \in 1..n : sizes[j] = CountOf(labels[j], I)
     /\ \A x \in types \ named : \A y \in named : CountOf(x, I) <= CountOf(y, I)
     /\ Cardinality(types) > TopN =>
          /\ labels[n + 1] = Str("Others")
          /\ sizes[n + 1] = SumCounts(types \ named, I)

C10_Bucketing ==
  /\ Finished("pie_chart_disaster_type") =>
       TopTenPlusOthers(frame.disaster_labels, frame.disaster_sizes, LoadedRows)
  /\ (Finished("pie_chart_disaster_type_by_country") /\ frame.rendered) =>
       TopTenPlusOthers(Labels(frame.top_disasters), Sizes(frame.top_disasters),
                        CountryRows(frame.selected_country))

C10_LabelsDistinct ==
  /\ Finished("pie_chart_disaster_type") =>
       Cardinality(Range(frame.disaster_labels)) = Len(frame.disaster_labels)
  /\ (Finished("pie_chart_disaster_type_by_country") /\ frame.rendered) =>
       Cardinality(Range(Labels(frame.top_disasters))) = Len(frame.top_disasters)

\* C10: both pie charts bucket "top-10 plus Others": the named buckets are the
\* types with the highest counts, each sized by its record count, "Others" is
\* added exactly when more than 10 types occur and sums the counts beyond the
\* first ten, and the bucket labels are pairwise distinct.
C10_TopTenPlusOthers == C10_Bucketing /\ C10_LabelsDistinct

====
